---- MODULE Spec2Model ----
(***************************************************************************)
(* Model of the gpool connection pool (package pool): Pool in pool.go and  *)
(* the GConn wrapper in conn.go.  Goroutines are the threads of the model; *)
(* every blocking point of the Go code (mutex acquisition, channel send    *)
(* and receive, select) is the guard of an action, and the code between    *)
(* two blocking points is one atomic step.                                 *)
(***************************************************************************)
EXTENDS Integers, Sequences, FiniteSets, TLC

\* ---- bounds of the model ------------------------------------------------
NThreads == 2
MaxMaxCap == 2
MaxCalls == 3

\* the run that exhibits waiting acquirers needs two more goroutines and one
\* more call than the others
NLiveThreads == NThreads + 2
LiveCalls == MaxCalls + 1
MaxConn == MaxMaxCap + LiveCalls
ConnIds == 1..MaxConn
NoConn == 0
NoRet == [op |-> "none", val |-> "none"]
NoSnap == <<>>
NoPre == [freed |-> FALSE]

VARIABLES
  phase,           \* "new": inside New; "open": New returned a pool; "failed": New returned an error
  config,          \* Pool.config: [InitCap, MaxCap]
  chanBuf,         \* buffer of the channel made for Pool.conns
  chanClosed,      \* close(conns) has been executed
  pConns,          \* the field Pool.conns: "chan" or "nil"
  pFactory,        \* the field Pool.factory: "dial" or "nil"
  mu,              \* Pool.mu: 0 when free, else the thread holding it
  idleConns,       \* Pool.idleConns
  createNum,       \* Pool.createNum
  remainingSpace,  \* number of tokens buffered in Pool.remainingSpace
  created,         \* number of connections the factory has produced
  closeCnt,        \* per connection: how many times net.Conn.Close ran on it
  held,            \* per connection: state of the GConn wrapper handed to a caller
  pc,              \* per thread: position in the operation it executes
  lconn,           \* per thread: the local variable conn
  ctx,             \* per thread: the context passed to BlockingGet
  ret,             \* the value the last step returned to a caller, NoRet if it returned nothing
  calls,           \* number of operations started so far (MarkUnusable and the first Close of a wrapper are not counted)
  onlyGets,        \* history: only Get has been called and the factory never failed
  idleAtClose,     \* history: content of the idle queue when Close detached it
  concurrent,      \* history: some operation was called while another was in progress
  pre,             \* history, per thread: what held when its acquire in progress was called
  env,             \* the callers: [limit: calls they make, reclose: they close a wrapper again, live: waiting is recorded]
  stale,           \* per connection: the wrapper of it a caller has closed and still holds
  snap,            \* history: the counters and the queue when the only acquire in progress was called
  woken            \* history: a wrapper was closed while a BlockingGet waited, and no BlockingGet has returned a connection since

vars == <<phase, config, chanBuf, chanClosed, pConns, pFactory, mu, idleConns,
          createNum, remainingSpace, created, closeCnt, held, pc, lconn, ctx,
          ret, calls, onlyGets, idleAtClose, concurrent, pre, env, stale,
          snap, woken>>

poolVars == <<config, chanBuf, chanClosed, pConns, pFactory, mu, idleConns,
              createNum, remainingSpace, created, closeCnt, held>>

\* the goroutines of the run
Threads == DOMAIN pc

MaxCap == config.MaxCap
InitCap == config.InitCap

\* connections created by the factory and not yet closed
Live == {c \in 1..created : closeCnt[c] = 0}
\* connections a caller holds through a wrapper
Borrowed == {c \in ConnIds : held[c] # "no"}
\* set of connections in the idle queue
Idle == {chanBuf[i] : i \in 1..Len(chanBuf)}

\* p.createNum > p.config.MaxCap
MoreThanMaxCap_OffByOne(n) == n >= MaxCap
MoreThanMaxCap(n) == n > MaxCap

\* p.remainingSpace <- true: the token count after the send
addRemainingSpace_Lost == remainingSpace
addRemainingSpace == remainingSpace + 1

\* <-p.remainingSpace: the token count after the receive
removeRemainingSpace_Kept == remainingSpace

removeRemainingSpace == remainingSpace - 1

\* ---- Config validation, New --------------------------------------------
ValidConfig(c) == ~(c.InitCap < 0 \/ c.MaxCap < 0 \/ c.InitCap > c.MaxCap)

\* state after make/struct creation in New, for n goroutines of callers e
InitOf(n, e) ==
  /\ env = e
  /\ stale = [c \in ConnIds |-> "no"]
  /\ woken = FALSE
  /\ snap = NoSnap
  /\ phase = "new"
  /\ config \in {c \in [InitCap : 0..MaxMaxCap, MaxCap : 0..MaxMaxCap] : ValidConfig(c)}
  /\ chanBuf = <<>>
  /\ chanClosed = FALSE
  /\ pConns = "chan"
  /\ pFactory = "dial"
  /\ mu = 0
  /\ idleConns = config.InitCap
  /\ createNum = 0
  /\ remainingSpace = config.MaxCap
  /\ created = 0
  /\ closeCnt = [c \in ConnIds |-> 0]
  /\ held = [c \in ConnIds |-> "no"]
  /\ pc = [t \in 1..n |-> "idle"]
  /\ lconn = [t \in 1..n |-> NoConn]
  /\ ctx = [t \in 1..n |-> "background"]
  /\ ret = NoRet
  /\ calls = 0
  /\ onlyGets = TRUE
  /\ idleAtClose = {}
  /\ concurrent = FALSE
  /\ pre = [t \in 1..n |-> NoPre]

\* callers that close each wrapper at most once
Init == InitOf(NThreads, [limit |-> MaxCalls, reclose |-> FALSE, live |-> FALSE])

\* one successful iteration of the pre-fill loop
New_Create_NoToken ==
  /\ phase = "new"
  /\ Len(chanBuf) < InitCap
  /\ remainingSpace > 0
  /\ created' = created + 1
  /\ remainingSpace' = remainingSpace
  /\ createNum' = InitCap
  /\ chanBuf' = Append(chanBuf, created + 1)
  /\ UNCHANGED <<snap, env, stale, woken, concurrent, phase, config, chanClosed, pConns, pFactory, mu,
                 idleConns, closeCnt, held, pc, lconn, ctx, ret, calls,
                 onlyGets, idleAtClose, pre>>

New_Create ==
  /\ phase = "new"
  /\ Len(chanBuf) < InitCap
  /\ remainingSpace > 0
  /\ created' = created + 1
  /\ remainingSpace' = removeRemainingSpace
  /\ createNum' = InitCap
  /\ chanBuf' = Append(chanBuf, created + 1)
  /\ UNCHANGED <<snap, env, stale, woken, concurrent, phase, config, chanClosed, pConns, pFactory, mu,
                 idleConns, closeCnt, held, pc, lconn, ctx, ret, calls,
                 onlyGets, idleAtClose, pre>>

\* the factory fails in the pre-fill loop: removeRemainingSpace, p.Close(),
\* addRemainingSpace, return the error
New_Fail_KeepsToken ==
  /\ phase = "new"
  /\ Len(chanBuf) < InitCap
  /\ remainingSpace > 0
  /\ LET n == Len(chanBuf)
         r0 == remainingSpace - 1
     IN  /\ pConns' = "nil"
         /\ pFactory' = "nil"
         /\ chanClosed' = TRUE
         /\ chanBuf' = <<>>
         /\ closeCnt' = [c \in ConnIds |-> IF c \in Idle THEN closeCnt[c] + 1 ELSE closeCnt[c]]
         /\ IF r0 + n < MaxCap
              THEN /\ remainingSpace' = r0 + n
                   /\ phase' = "failed"
              ELSE /\ remainingSpace' = MaxCap
                   /\ phase' = "stuck"
  /\ onlyGets' = FALSE
  /\ UNCHANGED <<snap, env, stale, woken, concurrent, config, mu, idleConns, createNum, created, held,
                 pc, lconn, ctx, ret, calls, idleAtClose, pre>>

New_Fail ==
  /\ phase = "new"
  /\ Len(chanBuf) < InitCap
  /\ remainingSpace > 0
  /\ LET n == Len(chanBuf)
         r0 == remainingSpace - 1
     IN  /\ pConns' = "nil"
         /\ pFactory' = "nil"
         /\ chanClosed' = TRUE
         /\ chanBuf' = <<>>
         /\ closeCnt' = [c \in ConnIds |-> IF c \in Idle THEN closeCnt[c] + 1 ELSE closeCnt[c]]
         /\ IF r0 + n < MaxCap
              THEN /\ remainingSpace' = r0 + n + 1
                   /\ phase' = "failed"
              ELSE /\ remainingSpace' = MaxCap
                   /\ phase' = "stuck"
  /\ onlyGets' = FALSE
  /\ UNCHANGED <<snap, env, stale, woken, concurrent, config, mu, idleConns, createNum, created, held,
                 pc, lconn, ctx, ret, calls, idleAtClose, pre>>

New_Return ==
  /\ phase = "new"
  /\ Len(chanBuf) = InitCap
  /\ phase' = "open"
  /\ UNCHANGED <<snap, env, stale, woken, concurrent, poolVars, pc, lconn, ctx, ret, calls, onlyGets,
                 idleAtClose, pre>>

\* ---- helpers shared by the operations -----------------------------------
\* operation o of goroutine t returns r to its caller
Finish(t, o, r) ==
  /\ pc' = [pc EXCEPT ![t] = "idle"]
  /\ ret' = [op |-> o, val |-> r]
  /\ pre' = [pre EXCEPT ![t] = NoPre]
  /\ snap' = NoSnap

\* the goroutine moves on inside its operation
Goto(t, p) ==
  /\ pc' = [pc EXCEPT ![t] = p]
  /\ ret' = NoRet
  /\ snap' = IF concurrent THEN NoSnap ELSE snap
  /\ UNCHANGED pre

\* no pool operation is in progress on a pool New has returned
Quiescent == phase = "open" /\ \A t \in Threads : pc[t] = "idle"

\* the last step completed the Close of a wrapper marked unusable, on an open
\* pool with an empty idle queue that held MaxCap connections before it, and
\* no operation is in progress
JustFreed ==
  /\ ret = [op |-> "GConn.Close", val |-> "destroyed"]
  /\ Quiescent
  /\ pConns = "chan"
  /\ chanBuf = <<>>
  /\ Cardinality(Live) = MaxCap - 1

\* goroutine t calls an operation of the pool or of a wrapper
Enter(t) ==
  concurrent' = (concurrent \/ \E u \in Threads \ {t} : pc[u] # "idle")

\* the counters and the queue of the pool
Snap == <<remainingSpace, createNum, idleConns, chanBuf>>

\* goroutine t enters an acquire at position p
Call(t, p) ==
  /\ pc' = [pc EXCEPT ![t] = p]
  /\ ret' = NoRet
  /\ pre' = [pre EXCEPT ![t] = [freed |-> JustFreed]]
  /\ snap' = IF concurrent' THEN NoSnap ELSE Snap

\* wrapConn: a fresh GConn around conn, unusable = false
wrapConn(c) == [held EXCEPT ![c] = "usable"]

\* net.Conn.Close on connection c
ConnClose(c) == [closeCnt EXCEPT ![c] = @ + 1]

\* Len() and Idle()
PoolLen == IF pConns = "nil" THEN 0 ELSE Len(chanBuf)
PoolIdle == idleConns

\* ---- Pool.Get -----------------------------------------------------------
\* getConnsAndFactory under the read lock, then the nil check
Get_Begin(t) ==
  /\ Enter(t)
  /\ phase = "open"
  /\ pc[t] = "idle"
  /\ calls < env.limit
  /\ mu = 0
  /\ calls' = calls + 1
  /\ IF pConns = "nil"
       THEN Finish(t, "Get", "ErrNil")
       ELSE Call(t, "getSelect")
  /\ UNCHANGED <<env, stale, woken, phase, poolVars, lconn, ctx, onlyGets, idleAtClose>>

\* select { case conn := <-conns: ... default: ... }
Get_Select(t) ==
  /\ pc[t] = "getSelect"
  /\ IF chanBuf # <<>>
       THEN /\ lconn' = [lconn EXCEPT ![t] = Head(chanBuf)]
            /\ chanBuf' = Tail(chanBuf)
            /\ Goto(t, "getIdle")
       ELSE /\ UNCHANGED <<lconn, chanBuf>>
            /\ IF chanClosed
                 THEN Finish(t, "Get", "ErrClosed")
                 ELSE Goto(t, "getCreate")
  /\ UNCHANGED <<env, stale, woken, concurrent, phase, config, chanClosed, pConns, pFactory, mu,
                 idleConns, createNum, remainingSpace, created, closeCnt, held,
                 ctx, calls, onlyGets, idleAtClose>>

\* p.mu.Lock(); p.idleConns--; p.mu.Unlock(); return p.wrapConn(conn)
Get_Idle(t) ==
  /\ pc[t] = "getIdle"
  /\ mu = 0
  /\ idleConns' = idleConns - 1
  /\ held' = wrapConn(lconn[t])
  /\ lconn' = [lconn EXCEPT ![t] = NoConn]
  /\ Finish(t, "Get", "ok")
  /\ UNCHANGED <<env, stale, woken, concurrent, phase, config, chanBuf, chanClosed, pConns,
                 pFactory, mu, createNum, remainingSpace, created, closeCnt,
                 ctx, calls, onlyGets, idleAtClose>>

\* default branch: lock, createNum++, capacity check, factory call.  When the
\* factory fails conn is nil and conn.RemoteAddr() panics; the deferred
\* Unlock runs.
Get_Create(t) ==
  /\ pc[t] = "getCreate"
  /\ mu = 0
  /\ createNum' = createNum + 1
  /\ IF MoreThanMaxCap(createNum + 1)
       THEN /\ Finish(t, "Get", "MoreThanMaxCap")
            /\ UNCHANGED <<mu, created, lconn, onlyGets>>
       ELSE \E ok \in BOOLEAN :
              IF ok
                THEN /\ created' = created + 1
                     /\ lconn' = [lconn EXCEPT ![t] = created + 1]
                     /\ mu' = t
                     /\ Goto(t, "getRemove")
                     /\ UNCHANGED onlyGets
                ELSE /\ Finish(t, "Get", "panic")
                     /\ onlyGets' = FALSE
                     /\ UNCHANGED <<mu, created, lconn>>
  /\ UNCHANGED <<env, stale, woken, concurrent, phase, config, chanBuf, chanClosed, pConns,
                 pFactory, idleConns, remainingSpace, closeCnt, held, ctx,
                 calls, idleAtClose>>

\* p.removeRemainingSpace() with the mutex held, then return the wrapper
Get_RemoveSpace(t) ==
  /\ pc[t] = "getRemove"
  /\ remainingSpace > 0
  /\ remainingSpace' = removeRemainingSpace
  /\ mu' = 0
  /\ held' = wrapConn(lconn[t])
  /\ lconn' = [lconn EXCEPT ![t] = NoConn]
  /\ Finish(t, "Get", "ok")
  /\ UNCHANGED <<env, stale, woken, concurrent, phase, config, chanBuf, chanClosed, pConns,
                 pFactory, idleConns, createNum, created, closeCnt, ctx, calls,
                 onlyGets, idleAtClose>>

\* ---- Pool.BlockingGet ---------------------------------------------------
Contexts == {"background", "expired"}

BGet_Begin(t, c) ==
  /\ Enter(t)
  /\ phase = "open"
  /\ pc[t] = "idle"
  /\ calls < env.limit
  /\ mu = 0
  /\ calls' = calls + 1
  /\ onlyGets' = FALSE
  /\ IF pConns = "nil"
       THEN /\ Finish(t, "BlockingGet", "ErrNil")
            /\ UNCHANGED ctx
       ELSE /\ Call(t, "bgetSelect")
            /\ ctx' = [ctx EXCEPT ![t] = c]
  /\ UNCHANGED <<env, stale, woken, phase, poolVars, lconn, idleAtClose>>

\* case conn := <-conns
BGet_RecvConn(t) ==
  /\ pc[t] = "bgetSelect"
  /\ chanBuf # <<>> \/ chanClosed
  /\ IF chanBuf # <<>>
       THEN /\ lconn' = [lconn EXCEPT ![t] = Head(chanBuf)]
            /\ chanBuf' = Tail(chanBuf)
            /\ Goto(t, "bgetIdle")
       ELSE /\ Finish(t, "BlockingGet", "ErrClosed")
            /\ UNCHANGED <<lconn, chanBuf>>
  /\ ctx' = [ctx EXCEPT ![t] = "background"]
  /\ UNCHANGED <<env, stale, woken, concurrent, phase, config, chanClosed, pConns, pFactory, mu,
                 idleConns, createNum, remainingSpace, created, closeCnt, held,
                 calls, onlyGets, idleAtClose>>

\* case _ = <-p.remainingSpace
BGet_RecvSpace(t) ==
  /\ pc[t] = "bgetSelect"
  /\ remainingSpace > 0
  /\ remainingSpace' = removeRemainingSpace
  /\ Goto(t, "bgetCreate")
  /\ ctx' = [ctx EXCEPT ![t] = "background"]
  /\ UNCHANGED <<env, stale, woken, concurrent, phase, config, chanBuf, chanClosed, pConns,
                 pFactory, mu, idleConns, createNum, created, closeCnt, held,
                 lconn, calls, onlyGets, idleAtClose>>

\* case <-ctx.Done()
BGet_CtxDone_Counts(t) ==
  /\ pc[t] = "bgetSelect"
  /\ ctx[t] = "expired"
  /\ Finish(t, "BlockingGet", "deadline")
  /\ ctx' = [ctx EXCEPT ![t] = "background"]
  /\ createNum' = createNum + 1
  /\ UNCHANGED <<env, stale, woken, concurrent, phase, config, chanBuf, chanClosed, pConns,
                 pFactory, mu, idleConns, remainingSpace, created, closeCnt,
                 held, lconn, calls, onlyGets, idleAtClose>>

BGet_CtxDone(t) ==
  /\ pc[t] = "bgetSelect"
  /\ ctx[t] = "expired"
  /\ Finish(t, "BlockingGet", "deadline")
  /\ ctx' = [ctx EXCEPT ![t] = "background"]
  /\ UNCHANGED <<env, stale, woken, concurrent, phase, poolVars, lconn, calls, onlyGets,
                 idleAtClose>>

BGet_Idle(t) ==
  /\ pc[t] = "bgetIdle"
  /\ mu = 0
  /\ idleConns' = idleConns - 1
  /\ held' = wrapConn(lconn[t])
  /\ lconn' = [lconn EXCEPT ![t] = NoConn]
  /\ Finish(t, "BlockingGet", "ok")
  /\ woken' = FALSE
  /\ UNCHANGED <<env, stale, concurrent, phase, config, chanBuf, chanClosed, pConns,
                 pFactory, mu, createNum, remainingSpace, created, closeCnt,
                 ctx, calls, onlyGets, idleAtClose>>

\* token taken: lock, createNum++, factory call
BGet_Create(t) ==
  /\ pc[t] = "bgetCreate"
  /\ mu = 0
  /\ createNum' = createNum + 1
  /\ \E ok \in BOOLEAN :
       IF ok
         THEN /\ created' = created + 1
              /\ held' = wrapConn(created + 1)
              /\ mu' = 0
              /\ Finish(t, "BlockingGet", "ok")
              /\ woken' = FALSE
         ELSE /\ mu' = t
              /\ Goto(t, "bgetAdd")
              /\ UNCHANGED <<created, held, woken>>
  /\ UNCHANGED <<env, stale, concurrent, phase, config, chanBuf, chanClosed, pConns,
                 pFactory, idleConns, remainingSpace, closeCnt, lconn, ctx,
                 calls, onlyGets, idleAtClose>>

\* factory error: p.addRemainingSpace() with the mutex held, return err
BGet_AddSpace(t) ==
  /\ pc[t] = "bgetAdd"
  /\ remainingSpace < MaxCap
  /\ remainingSpace' = addRemainingSpace
  /\ mu' = 0
  /\ Finish(t, "BlockingGet", "factoryErr")
  /\ UNCHANGED <<env, stale, woken, concurrent, phase, config, chanBuf, chanClosed, pConns,
                 pFactory, idleConns, createNum, created, closeCnt, held,
                 lconn, ctx, calls, onlyGets, idleAtClose>>

\* ---- GConn.MarkUnusable, GConn.Close, Pool.Return -----------------------
MarkUnusable(t, c) ==
  /\ Enter(t)
  /\ phase = "open"
  /\ pc[t] = "idle"
  /\ held[c] = "usable"
  /\ held' = [held EXCEPT ![c] = "unusable"]
  /\ onlyGets' = FALSE
  /\ ret' = NoRet
  /\ UNCHANGED <<snap, env, stale, woken, phase, config, chanBuf, chanClosed, pConns, pFactory, mu,
                 idleConns, createNum, remainingSpace, created, closeCnt, pc,
                 lconn, ctx, calls, idleAtClose, pre>>

\* a BlockingGet without deadline waits in its select: the queue is empty
\* and open and no token is free
Waiting ==
  /\ pConns = "chan"
  /\ chanBuf = <<>>
  /\ remainingSpace = 0
  /\ \E u \in Threads : pc[u] = "bgetSelect" /\ ctx[u] = "background"

\* what Return returns: nil after the send, else the result of conn.Close()
ReturnVal ==
  IF pConns = "chan" /\ Len(chanBuf) < MaxCap THEN "returned" ELSE "connClosed"

\* Pool.Return(conn) for a non-nil conn, inside the critical section
Return_NoIdleCount(c) ==
  IF pConns = "nil"
    THEN /\ closeCnt' = ConnClose(c)
         /\ UNCHANGED <<chanBuf, idleConns>>
    ELSE IF Len(chanBuf) < MaxCap
      THEN /\ chanBuf' = Append(chanBuf, c)
           /\ idleConns' = idleConns
           /\ UNCHANGED closeCnt
      ELSE /\ closeCnt' = ConnClose(c)
           /\ UNCHANGED <<chanBuf, idleConns>>

Return(c) ==
  IF pConns = "nil"
    THEN /\ closeCnt' = ConnClose(c)
         /\ UNCHANGED <<chanBuf, idleConns>>
    ELSE IF Len(chanBuf) < MaxCap
      THEN /\ chanBuf' = Append(chanBuf, c)
           /\ idleConns' = idleConns + 1
           /\ UNCHANGED closeCnt
      ELSE /\ closeCnt' = ConnClose(c)
           /\ UNCHANGED <<chanBuf, idleConns>>

\* GConn.Close of a usable wrapper: return g.p.Return(g.Conn)
GClose_Return(t, c) ==
  /\ Enter(t)
  /\ pc[t] = "idle"
  /\ held[c] = "usable"
  /\ mu = 0
  /\ Return(c)
  /\ held' = [held EXCEPT ![c] = "no"]
  /\ stale' = IF env.reclose THEN [stale EXCEPT ![c] = "usable"] ELSE stale
  /\ woken' = (woken \/ (env.live /\ Waiting))
  /\ onlyGets' = FALSE
  /\ Finish(t, "GConn.Close", ReturnVal)
  /\ UNCHANGED <<env, phase, config, chanClosed, pConns, pFactory, mu, createNum,
                 remainingSpace, created, lconn, ctx, calls, idleAtClose>>

\* GConn.Close of an unusable wrapper, first half: g.p.addRemainingSpace()
GClose_AddSpace(t, c) ==
  /\ Enter(t)
  /\ pc[t] = "idle"
  /\ held[c] = "unusable"
  /\ remainingSpace < MaxCap
  /\ remainingSpace' = addRemainingSpace
  /\ held' = [held EXCEPT ![c] = "closing"]
  /\ lconn' = [lconn EXCEPT ![t] = c]
  /\ woken' = (woken \/ (env.live /\ Waiting))
  /\ Goto(t, "gcloseConn")
  /\ UNCHANGED <<env, stale, phase, config, chanBuf, chanClosed, pConns, pFactory, mu,
                 idleConns, createNum, created, closeCnt, ctx, calls, onlyGets,
                 idleAtClose>>

\* second half: return g.Conn.Close()
GClose_ConnClose(t) ==
  /\ pc[t] = "gcloseConn"
  /\ closeCnt' = ConnClose(lconn[t])
  /\ held' = [held EXCEPT ![lconn[t]] = "no"]
  /\ stale' = IF env.reclose THEN [stale EXCEPT ![lconn[t]] = "unusable"] ELSE stale
  /\ lconn' = [lconn EXCEPT ![t] = NoConn]
  /\ Finish(t, "GConn.Close", "destroyed")
  /\ UNCHANGED <<env, woken, concurrent, phase, config, chanBuf, chanClosed, pConns,
                 pFactory, mu, idleConns, createNum, remainingSpace, created,
                 ctx, calls, onlyGets, idleAtClose>>

\* Pool.Return(nil): the nil check logs conn.RemoteAddr(), a method call on
\* the nil interface, which panics before ErrNil is returned
Return_Nil(t) ==
  /\ Enter(t)
  /\ phase = "open"
  /\ pc[t] = "idle"
  /\ calls < env.limit
  /\ calls' = calls + 1
  /\ onlyGets' = FALSE
  /\ Finish(t, "Return", "panic")
  /\ UNCHANGED <<env, stale, woken, poolVars, phase, lconn, ctx,
                 idleAtClose>>

\* GConn.Close called again on a usable wrapper already closed: g.Conn and
\* g.unusable are as the first Close left them, so Return(g.Conn) runs again
GReclose_Return(t, c) ==
  /\ Enter(t)
  /\ phase = "open"
  /\ pc[t] = "idle"
  /\ stale[c] = "usable"
  /\ calls < env.limit
  /\ mu = 0
  /\ calls' = calls + 1
  /\ Return(c)
  /\ onlyGets' = FALSE
  /\ Finish(t, "GConn.Close", ReturnVal)
  /\ UNCHANGED <<env, stale, woken, phase, config, chanClosed, pConns,
                 pFactory, mu, createNum, remainingSpace, created, held,
                 lconn, ctx, idleAtClose>>

\* GConn.Close called again on an unusable wrapper already closed: g.Conn is
\* still non-nil, so a token is released again ...
GReclose_AddSpace(t, c) ==
  /\ Enter(t)
  /\ phase = "open"
  /\ pc[t] = "idle"
  /\ stale[c] = "unusable"
  /\ calls < env.limit
  /\ remainingSpace < MaxCap
  /\ calls' = calls + 1
  /\ remainingSpace' = addRemainingSpace
  /\ lconn' = [lconn EXCEPT ![t] = c]
  /\ onlyGets' = FALSE
  /\ Goto(t, "grecloseConn")
  /\ UNCHANGED <<env, stale, woken, phase, config, chanBuf, chanClosed,
                 pConns, pFactory, mu, idleConns, createNum, created,
                 closeCnt, held, ctx, idleAtClose>>

\* ... and g.Conn.Close() runs again
GReclose_ConnClose(t) ==
  /\ pc[t] = "grecloseConn"
  /\ closeCnt' = ConnClose(lconn[t])
  /\ lconn' = [lconn EXCEPT ![t] = NoConn]
  /\ Finish(t, "GConn.Close", "destroyed")
  /\ UNCHANGED <<env, stale, woken, concurrent, phase, config, chanBuf,
                 chanClosed, pConns, pFactory, mu, idleConns, createNum,
                 remainingSpace, created, held, ctx, calls, onlyGets,
                 idleAtClose>>

\* ---- Pool.Close ---------------------------------------------------------
\* lock; conns := p.conns; p.conns = nil; p.factory = nil; unlock; nil check
Close_Detach_KeepsQueue(t) ==
  /\ Enter(t)
  /\ phase = "open"
  /\ pc[t] = "idle"
  /\ calls < env.limit
  /\ mu = 0
  /\ calls' = calls + 1
  /\ onlyGets' = FALSE
  /\ pConns' = pConns
  /\ pFactory' = "nil"
  /\ IF pConns = "nil"
       THEN /\ Finish(t, "Close", "noop")
            /\ UNCHANGED idleAtClose
       ELSE /\ Goto(t, "closeChan")
            /\ idleAtClose' = Idle
  /\ UNCHANGED <<env, stale, woken, phase, config, chanBuf, chanClosed, mu, idleConns, createNum,
                 remainingSpace, created, closeCnt, held, lconn, ctx>>

Close_Detach(t) ==
  /\ Enter(t)
  /\ phase = "open"
  /\ pc[t] = "idle"
  /\ calls < env.limit
  /\ mu = 0
  /\ calls' = calls + 1
  /\ onlyGets' = FALSE
  /\ pConns' = "nil"
  /\ pFactory' = "nil"
  /\ IF pConns = "nil"
       THEN /\ Finish(t, "Close", "noop")
            /\ UNCHANGED idleAtClose
       ELSE /\ Goto(t, "closeChan")
            /\ idleAtClose' = Idle
  /\ UNCHANGED <<env, stale, woken, phase, config, chanBuf, chanClosed, mu, idleConns, createNum,
                 remainingSpace, created, closeCnt, held, lconn, ctx>>

\* close(conns)
Close_CloseChan(t) ==
  /\ pc[t] = "closeChan"
  /\ chanClosed' = TRUE
  /\ Goto(t, "closeDrain")
  /\ UNCHANGED <<env, stale, woken, concurrent, phase, config, chanBuf, pConns, pFactory, mu,
                 idleConns, createNum, remainingSpace, created, closeCnt, held,
                 lconn, ctx, calls, onlyGets, idleAtClose>>

\* for conn := range conns { conn.Close() ...
Close_Drain(t) ==
  /\ pc[t] = "closeDrain"
  /\ IF chanBuf # <<>>
       THEN /\ closeCnt' = ConnClose(Head(chanBuf))
            /\ chanBuf' = Tail(chanBuf)
            /\ Goto(t, "closeAdd")
       ELSE /\ Finish(t, "Close", "drained")
            /\ UNCHANGED <<closeCnt, chanBuf>>
  /\ UNCHANGED <<env, stale, woken, concurrent, phase, config, chanClosed, pConns, pFactory, mu,
                 idleConns, createNum, remainingSpace, created, held, lconn,
                 ctx, calls, onlyGets, idleAtClose>>

\* ... p.addRemainingSpace() }
Close_AddSpace(t) ==
  /\ pc[t] = "closeAdd"
  /\ remainingSpace < MaxCap
  /\ remainingSpace' = addRemainingSpace
  /\ Goto(t, "closeDrain")
  /\ UNCHANGED <<env, stale, woken, concurrent, phase, config, chanBuf, chanClosed, pConns,
                 pFactory, mu, idleConns, createNum, created, closeCnt, held,
                 lconn, ctx, calls, onlyGets, idleAtClose>>

\* ---- the system ---------------------------------------------------------
Next ==
  \/ New_Create
  \/ New_Fail
  \/ New_Return
  \/ \E t \in Threads : Get_Begin(t)
  \/ \E t \in Threads : Get_Select(t)
  \/ \E t \in Threads : Get_Idle(t)
  \/ \E t \in Threads : Get_Create(t)
  \/ \E t \in Threads : Get_RemoveSpace(t)
  \/ \E t \in Threads, c \in Contexts : BGet_Begin(t, c)
  \/ \E t \in Threads : BGet_RecvConn(t)
  \/ \E t \in Threads : BGet_RecvSpace(t)
  \/ \E t \in Threads : BGet_CtxDone(t)
  \/ \E t \in Threads : BGet_Idle(t)
  \/ \E t \in Threads : BGet_Create(t)
  \/ \E t \in Threads : BGet_AddSpace(t)
  \/ \E t \in Threads, c \in ConnIds : MarkUnusable(t, c)
  \/ \E t \in Threads, c \in ConnIds : GClose_Return(t, c)
  \/ \E t \in Threads, c \in ConnIds : GClose_AddSpace(t, c)
  \/ \E t \in Threads : GClose_ConnClose(t)
  \/ \E t \in Threads : Close_Detach(t)
  \/ \E t \in Threads : Close_CloseChan(t)
  \/ \E t \in Threads : Close_Drain(t)
  \/ \E t \in Threads : Close_AddSpace(t)

Spec == Init /\ [][Next]_vars

\* callers that may close a wrapper they have already closed, or return nil
InitReclose == InitOf(NThreads, [limit |-> MaxCalls, reclose |-> TRUE, live |-> FALSE])

NextReclose ==
  \/ Next
  \/ \E t \in Threads : Return_Nil(t)
  \/ \E t \in Threads, c \in ConnIds : GReclose_Return(t, c)
  \/ \E t \in Threads, c \in ConnIds : GReclose_AddSpace(t, c)
  \/ \E t \in Threads : GReclose_ConnClose(t)

SpecReclose == InitReclose /\ [][NextReclose]_vars

\* disciplined callers of Get, BlockingGet without deadline, MarkUnusable
\* and GConn.Close on a pool that is not closed; a goroutine inside an
\* operation keeps being scheduled
InitLive == InitOf(NLiveThreads, [limit |-> LiveCalls, reclose |-> FALSE, live |-> TRUE])

Step(t) ==
  \/ Get_Select(t)
  \/ Get_Idle(t)
  \/ Get_Create(t)
  \/ Get_RemoveSpace(t)
  \/ BGet_RecvConn(t)
  \/ BGet_RecvSpace(t)
  \/ BGet_Idle(t)
  \/ BGet_Create(t)
  \/ BGet_AddSpace(t)
  \/ GClose_ConnClose(t)

NextLive ==
  \/ New_Create
  \/ New_Fail
  \/ New_Return
  \/ \E t \in Threads : Get_Begin(t)
  \/ \E t \in Threads : BGet_Begin(t, "background")
  \/ \E t \in Threads, c \in ConnIds : MarkUnusable(t, c)
  \/ \E t \in Threads, c \in ConnIds : GClose_Return(t, c)
  \/ \E t \in Threads, c \in ConnIds : GClose_AddSpace(t, c)
  \/ \E t \in Threads : Step(t)

SpecLive ==
  /\ InitLive
  /\ [][NextLive]_vars
  /\ \A t \in 1..NLiveThreads : WF_vars(Step(t))

\* ---- well-formedness of the model ---------------------------------------
TypeOK ==
  /\ phase \in {"new", "open", "failed", "stuck"}
  /\ chanBuf \in Seq(ConnIds)
  /\ mu \in {0} \cup Threads
  /\ remainingSpace \in 0..MaxCap
  /\ created \in 0..MaxConn
  /\ calls \in 0..env.limit

\* ---- properties ---------------------------------------------------------
Min(a, b) == IF a < b THEN a ELSE b

\* the Close call that detached the queue has returned
CloseReturned ==
  /\ phase = "open"
  /\ pConns = "nil"
  /\ \A t \in Threads : pc[t] \notin {"closeChan", "closeDrain", "closeAdd"}

GetCapErr == [op |-> "Get", val |-> "MoreThanMaxCap"]
BGetDeadline == [op |-> "BlockingGet", val |-> "deadline"]

\* C1: the number of live connections (created and not yet closed) never
\* exceeds MaxCap.
C1_LiveWithinMaxCap == Cardinality(Live) <= MaxCap

\* C2: no Get call is ever suspended in removeRemainingSpace waiting for a
\* capacity token (it would wait with the pool mutex held).
C2_GetNeverWaitsForToken ==
  \A t \in Threads : ~(pc[t] = "getRemove" /\ remainingSpace = 0)

\* C3 (as stated): at every quiescent point idle + borrowed + free tokens
\* equals MaxCap, also after Pool.Close; stated here for the histories in
\* which the operations were called one after the other, which the claim
\* covers.
C3_TokenConservation ==
  (Quiescent /\ ~concurrent) =>
     Len(chanBuf) + Cardinality(Borrowed) + remainingSpace = MaxCap

\* C3 (amended): at every quiescent point of a pool that has not been closed,
\* idle + borrowed + free tokens equals MaxCap.
C3_TokenConservationOpen ==
  (Quiescent /\ pConns = "chan") =>
     Len(chanBuf) + Cardinality(Borrowed) + remainingSpace = MaxCap

C3_Witness ==
  /\ Quiescent
  /\ pConns = "chan"
  /\ chanBuf # <<>>
  /\ Borrowed # {}
  /\ \E c \in ConnIds : closeCnt[c] > 0

\* C4: once Pool.Close has detached the queue and the factory, no step
\* creates a connection or hands one to a caller, and when Close has returned
\* every connection that was idle at the detach has been closed.
C4_NothingCreatedOrHandedOutAfterClose ==
  /\ [][pConns = "nil" =>
          /\ created' = created
          /\ \A c \in ConnIds : held[c] = "no" => held'[c] = "no"]_vars
  /\ [](CloseReturned => \A c \in idleAtClose : closeCnt[c] > 0)

\* C5: closing a wrapper marked unusable does not raise Idle() and closes the
\* connection, and the acquire that follows on the open pool with an empty
\* idle queue that was at MaxCap before the close does not fail for capacity
\* while that capacity is still free.
C5_UnusableCloseFreesCapacity ==
  [][\A t \in Threads :
       /\ (pc[t] = "gcloseConn" /\ pc'[t] = "idle") =>
             /\ idleConns' <= idleConns
             /\ closeCnt'[lconn[t]] = 1
       /\ ( /\ pre[t].freed
            /\ pc[t] # "idle" /\ pc'[t] = "idle"
            /\ Cardinality(Live) < MaxCap
            /\ remainingSpace > 0 )
          => ret'.val # "MoreThanMaxCap"]_vars

\* C6 (as stated): a BlockingGet whose context is already expired leaves its
\* select with the deadline error and changes no counter, in every pool state.
C6_ExpiredAlwaysDeadline ==
  [][\A t \in Threads :
       (pc[t] = "bgetSelect" /\ ctx[t] = "expired" /\ pc'[t] # "bgetSelect") =>
          /\ ret' = BGetDeadline
          /\ UNCHANGED <<idleConns, createNum, remainingSpace, chanBuf>>]_vars

\* C6 (amended): a BlockingGet whose context is already expired returns the
\* deadline error when, at its select, the idle queue is empty and not closed
\* and no token is free; and whenever BlockingGet returns the deadline error
\* it has changed no counter.
C6_ExpiredDeadlineWhenNothingReady ==
  [][\A t \in Threads :
       /\ ( /\ pc[t] = "bgetSelect" /\ ctx[t] = "expired" /\ pc'[t] # "bgetSelect"
            /\ chanBuf = <<>> /\ ~chanClosed /\ remainingSpace = 0 )
          => ret' = BGetDeadline
       /\ (pc[t] = "bgetSelect" /\ pc'[t] = "idle" /\ ret' = BGetDeadline)
          => UNCHANGED <<idleConns, createNum, remainingSpace, chanBuf>>]_vars

C6_Witness ==
  /\ ret = BGetDeadline
  /\ pConns = "chan"
  /\ chanBuf = <<>>
  /\ remainingSpace = 0
  /\ Borrowed # {}

\* C7: after Pool.Close has returned every Get and BlockingGet that starts
\* fails with a closed-pool error, creating nothing and taking no token, and
\* every connection idle when Close detached the queue was closed exactly once.
C7_ClosedPoolRejectsAndDrained ==
  /\ [][(CloseReturned /\ calls' = calls + 1 /\ ret'.op # "Close") =>
          /\ ret'.val \in {"ErrNil", "ErrClosed"}
          /\ created' = created
          /\ remainingSpace' = remainingSpace]_vars
  /\ [](CloseReturned => \A c \in idleAtClose : closeCnt[c] = 1)

\* C8: when only Get has been called, nothing was returned or destroyed and
\* the factory never failed, exactly the first MaxCap Get calls succeed
\* (InitCap of them from the idle queue, the others by creation) and every
\* later one fails with the capacity error.
C8_ExactlyMaxCapGets ==
  (onlyGets /\ phase = "open") =>
     /\ ret.op = "Get" => ret.val \in {"ok", "MoreThanMaxCap"}
     /\ ret = GetCapErr => calls > MaxCap
     /\ Quiescent =>
          /\ Cardinality(Borrowed) = Min(calls, MaxCap)
          /\ Len(chanBuf) = InitCap - Min(calls, InitCap)
          /\ created = InitCap + (Min(calls, MaxCap) - Min(calls, InitCap))

C8_Witness ==
  /\ onlyGets
  /\ Quiescent
  /\ InitCap = 1
  /\ MaxCap = 2
  /\ calls = 3
  /\ ret = GetCapErr
  /\ Cardinality(Borrowed) = 2

\* C9: at every quiescent point Idle() equals Len().
C9_IdleEqualsLen == Quiescent => PoolIdle = PoolLen

\* C10: at every quiescent point 0 <= Idle() <= Len() <= MaxCap.
C10_IdleBetweenZeroAndLen ==
  Quiescent => (0 <= PoolIdle /\ PoolIdle <= PoolLen /\ PoolLen <= MaxCap)

ClosePcs == {"closeChan", "closeDrain", "closeAdd"}
CloseNoop == [op |-> "Close", val |-> "noop"]

\* C11: of the Pool.Close calls, sequential or concurrent, exactly the one
\* that finds the queue non-nil detaches and drains it, closing each
\* connection it drains once and releasing one token for it without ever
\* waiting; every other Close call returns at once and touches no connection
\* and no token.
C11_CloseIsIdempotent ==
  /\ [][\A t \in Threads :
          /\ (pc[t] = "idle" /\ calls' = calls + 1
                /\ (pc'[t] = "closeChan" \/ ret'.op = "Close")) =>
                IF pConns = "nil"
                  THEN /\ ret' = CloseNoop
                       /\ UNCHANGED <<closeCnt, remainingSpace, chanBuf, chanClosed>>
                  ELSE /\ pc'[t] = "closeChan"
                       /\ pConns' = "nil"
          /\ (pc[t] = "closeDrain" /\ pc'[t] = "closeAdd") =>
                /\ closeCnt'[Head(chanBuf)] = 1
                /\ chanBuf' = Tail(chanBuf)
          /\ (pc[t] = "closeAdd" /\ pc'[t] # "closeAdd") =>
                /\ pc'[t] = "closeDrain"
                /\ remainingSpace' = remainingSpace + 1]_vars
  /\ [](Cardinality({t \in Threads : pc[t] \in ClosePcs}) <= 1)
  /\ [](\A t \in Threads : pc[t] = "closeAdd" => remainingSpace < MaxCap)

C11_Witness ==
  /\ ret = CloseNoop
  /\ \E t \in Threads : pc[t] = "closeAdd"

\* C12: when the pre-fill of New fails, New returns the error and no pool,
\* every connection created so far has been closed exactly once, all MaxCap
\* tokens are free, and the teardown has not blocked.
C12_FailedNewTearsDown ==
  /\ phase # "stuck"
  /\ phase = "failed" =>
       /\ pConns = "nil"
       /\ chanBuf = <<>>
       /\ \A c \in 1..created : closeCnt[c] = 1
       /\ remainingSpace = MaxCap

C12_Witness ==
  /\ phase = "failed"
  /\ created = 1
  /\ MaxCap = 2

\* C13: when the factory call inside Get or BlockingGet fails, the call
\* returns the factory's error, and the free tokens, createNum, idleConns
\* and the idle queue are what they were when the call was made; stated for
\* a call during which no other operation runs.
C13_FactoryFailureUnwound ==
  [][\A t \in Threads :
       ( /\ pc[t] # "idle" /\ pc'[t] = "idle"
         /\ ret'.op \in {"Get", "BlockingGet"}
         /\ ret'.val \in {"panic", "factoryErr"}
         /\ snap # NoSnap
         /\ ~concurrent )
       => /\ ret'.val = "factoryErr"
          /\ Snap' = snap]_vars

\* C14: no connection is at the same time held by a caller through a wrapper
\* and present in the idle queue, also when callers close a wrapper more
\* than once.
C14_NeverBorrowedAndIdle == Borrowed \cap Idle = {}

ReturnRan == ret.op = "GConn.Close" /\ ret.val \in {"returned", "connClosed"}

\* C15: Return of a connection enqueues it and raises Idle() by one when the
\* pool is open and the queue holds fewer than MaxCap connections; it closes
\* the connection and leaves Idle() and the queue alone when the pool is
\* closed or the queue holds MaxCap connections; it never changes createNum
\* or the free tokens.
C15_ReturnEffects ==
  [][ReturnRan' =>
       /\ createNum' = createNum
       /\ remainingSpace' = remainingSpace
       /\ \E c \in ConnIds :
            /\ held[c] = "usable" \/ stale[c] = "usable"
            /\ IF pConns = "chan" /\ Len(chanBuf) < MaxCap
                 THEN /\ PoolIdle' = PoolIdle + 1
                      /\ chanBuf' = Append(chanBuf, c)
                      /\ closeCnt' = closeCnt
                      /\ ret'.val = "returned"
                 ELSE /\ PoolIdle' = PoolIdle
                      /\ chanBuf' = chanBuf
                      /\ closeCnt' = ConnClose(c)
                      /\ ret'.val = "connClosed"]_vars

C15_Witness ==
  /\ ReturnRan
  /\ ret.val = "connClosed"
  /\ pConns = "chan"
  /\ Len(chanBuf) = MaxCap
  /\ MaxCap = 2

\* C16: Return of a nil connection returns the nil-connection error to its
\* caller.
C16_ReturnNilIsRejected == ret.op = "Return" => ret.val = "ErrNilConn"

\* C17: right after a successful New, Idle() = Len() = createNum = InitCap and
\* MaxCap - InitCap tokens are free.
C17_StateAfterNew ==
  (phase = "open" /\ calls = 0) =>
     /\ PoolIdle = InitCap
     /\ PoolLen = InitCap
     /\ createNum = InitCap
     /\ remainingSpace = MaxCap - InitCap
     /\ Borrowed = {}

C17_Witness ==
  /\ phase = "open"
  /\ calls = 0
  /\ InitCap = 1
  /\ MaxCap = 2

\* C18: whenever Get returns the capacity error, MaxCap connections are live
\* and no token is free; stated for the histories in which the operations
\* were called one after the other.
C18_CapErrOnlyWhenExhausted ==
  (ret = GetCapErr /\ ~concurrent) =>
     /\ Cardinality(Live) = MaxCap
     /\ remainingSpace = 0

\* C19: once a wrapper has been closed while a BlockingGet without deadline
\* waited with the queue empty and no token free, and until a BlockingGet
\* returns a connection, the pool is never in a state where no goroutine can
\* take any step (from such a state no BlockingGet returns, however the
\* goroutines are scheduled).
C19_WokenBlockingGetNotStuck == woken => ENABLED NextLive

\* C20: while a caller holds a usable wrapper of an open pool, the idle queue
\* holds fewer than MaxCap connections, so that Return never takes its
\* queue-full branch.
C20_QueueNeverFullOnReturn ==
  (pConns = "chan" /\ \E c \in ConnIds : held[c] = "usable") =>
     Len(chanBuf) < MaxCap

C20_Witness ==
  /\ ret = [op |-> "GConn.Close", val |-> "returned"]
  /\ pConns = "chan"
  /\ MaxCap = 2
  /\ Len(chanBuf) = MaxCap
  /\ remainingSpace = 0

====
